---- MODULE Spec2Model ----
(***************************************************************************)
(* Model of the Artistic Vision single-page application: the App           *)
(* component's state and handlers (src/App.tsx lines 11-91 and the JSX     *)
(* callbacks) and the generation client generateEditedImage                *)
(* (src/App.tsx lines 309-370).                                            *)
(*                                                                         *)
(* Strings are sequences of tokens (a token is a TLA+ string standing for  *)
(* a run of characters), so that prefix stripping, trimming, truncation    *)
(* and concatenation are computed.  A nullable value is <<>> (null) or     *)
(* the one-element sequence <<v>>.                                         *)
(***************************************************************************)
EXTENDS Integers, Sequences, FiniteSets, Bags, TLC

VARIABLES prompt, sourceImage, resultImage, state, readers, examples, calls, last

vars == <<prompt, sourceImage, resultImage, state, readers, examples, calls, last>>

(* ---------------------------- bounds ----------------------------------- *)

\* most file reads, example fetches and generation calls pending at once
MaxInFlight == 2

\* length of the long text a response part may carry
LongLen == 101

\* most parts in a response given to the generation client on its own
MaxParts == 3

(* ---------------------------- values ----------------------------------- *)

Null == <<>>

Some(v) == <<v>>

\* types.ts ProcessingState.stage
Stages == {"idle", "uploading", "processing", "complete"}

DEFAULT_PROMPT == <<"Using the reference image, create a hyper-realistic modern oil painting", " ", "Portrait size: 4:5 ratio.">>

DEFAULT_MIME == <<"image/", "png">>

SUBSTRING_END == 100

WhiteSpace == {" ", "\n", "\t"}

\* what the textarea's onChange may deliver
PromptInputs == {DEFAULT_PROMPT, <<>>, <<" ", "\n">>, <<" ", "sketch", " ">>}

\* files the picker may deliver (accept="image/*")
UserFiles == {
    [name |-> "photo.png", type |-> <<"image/", "png">>, bytes |-> <<"iVBOR", "w0KGgo=">>],
    [name |-> "anim.gif",  type |-> <<"image/", "gif">>, bytes |-> <<"R0lGOD", "lhAQAB">>] }

\* new File([blob], "example_portrait.jpg", { type: "image/jpeg" })
ExampleFile == [name |-> "example_portrait.jpg", type |-> <<"image/", "jpeg">>, bytes |-> <<"/9j/4AAQ">>]

Files == UserFiles \cup {ExampleFile}

(* ------------------------- pure functions ------------------------------ *)

\* FileReader.readAsDataURL: "data:<type>;base64,<bytes>"
DataURL(file) == <<"data:">> \o file.type \o <<";base64,">> \o file.bytes

RECURSIVE TrimStart(_)
TrimStart(s) == IF s # <<>> /\ Head(s) \in WhiteSpace THEN TrimStart(Tail(s)) ELSE s

RECURSIVE TrimEnd(_)
TrimEnd(s) == IF s # <<>> /\ s[Len(s)] \in WhiteSpace THEN TrimEnd(SubSeq(s, 1, Len(s) - 1)) ELSE s

\* String.prototype.trim
Trim(s) == TrimEnd(TrimStart(s))

\* the alternation of the regular expression of line 316
PrefixSubtypes == {"png", "jpeg", "jpg", "webp"}

\* imageBase64.replace(/^data:image\/(png|jpeg|jpg|webp);base64,/, '')
CleanBase64(s) ==
    IF /\ Len(s) >= 4
       /\ s[1] = "data:"
       /\ s[2] = "image/"
       /\ s[3] \in PrefixSubtypes
       /\ s[4] = ";base64,"
    THEN SubSeq(s, 5, Len(s))
    ELSE s

\* a || b on strings: the empty string is falsy
OrElse(a, b) == IF a = <<>> THEN b ELSE a

\* the text used whole, without substring
Substring0_whole(s, n) == s

\* String.prototype.substring(0, n)
Substring0(s, n) == SubSeq(s, 1, IF Len(s) < n THEN Len(s) ELSE n)

\* a response part; an absent or empty string field is <<>>
ImagePart(mime, data) == [inlineData |-> Some([mimeType |-> mime, data |-> data]), text |-> <<>>]

TextPart(text) == [inlineData |-> Null, text |-> text]

HasImage(part) == part.inlineData # Null /\ part.inlineData[1].data # <<>>

\* lines 345-350: the GeneratedImage built from a part
ImageOf(part) ==
    LET mimeType == OrElse(part.inlineData[1].mimeType, DEFAULT_MIME)
    IN  [url |-> <<"data:">> \o mimeType \o <<";base64,">> \o part.inlineData[1].data,
         mimeType |-> mimeType]

\* the loop without its break: the last part with inline image data wins
RECURSIVE FirstImage_noBreak(_, _)
FirstImage_noBreak(parts, i) ==
    IF i > Len(parts) THEN 0
    ELSE LET later == FirstImage_noBreak(parts, i + 1)
         IN  IF later # 0 THEN later
             ELSE IF HasImage(parts[i]) THEN i
             ELSE 0

\* lines 343-353: index of the first part with inline image data, 0 if none
RECURSIVE FirstImage(_, _)
FirstImage(parts, i) ==
    IF i > Len(parts) THEN 0
    ELSE IF HasImage(parts[i]) THEN i
    ELSE FirstImage(parts, i + 1)

\* line 357: parts.find(p => p.text), 0 if none
RECURSIVE FirstText(_, _)
FirstText(parts, i) ==
    IF i > Len(parts) THEN 0
    ELSE IF parts[i].text # <<>> THEN i
    ELSE FirstText(parts, i + 1)

Resolved(image) == [ok |-> TRUE, image |-> Some(image), message |-> <<>>]

\* lines 366-369: every throw inside the try is re-raised with its message
Rejected(message) == [ok |-> FALSE, image |-> Null, message |-> OrElse(message, <<"Failed to generate image">>)]

TextInsteadMessage(text) ==
    <<"The model returned text instead of an image: \"">> \o Substring0(text, SUBSTRING_END) \o <<"...\"">>

\* lines 336-364: what generateEditedImage settles with, given the parts
ParseParts(parts) ==
    LET i == FirstImage(parts, 1)
        t == FirstText(parts, 1)
    IN  IF i # 0 THEN Resolved(ImageOf(parts[i]))
        ELSE IF t # 0 THEN Rejected(TextInsteadMessage(parts[t].text))
        ELSE Rejected(<<"No image data found in response">>)

TYPE_ERROR == <<"Cannot read properties of null (reading 'replace')">>

\* a reply of ai.models.generateContent: a rejection with a message, or a
\* response whose candidate may lack parts
Failure(message) == [failed |-> TRUE, message |-> message, parts |-> Null]

Response(parts) == [failed |-> FALSE, message |-> <<>>, parts |-> Some(parts)]

NoParts == [failed |-> FALSE, message |-> <<>>, parts |-> Null]

LongText == [i \in 1..LongLen |-> IF i = LongLen THEN "z" ELSE "x"]

Replies == {
    Failure(<<>>),
    Failure(<<"Network error">>),
    NoParts,
    Response(<<>>),
    Response(<<ImagePart(<<"image/", "png">>, <<"AAAA">>)>>),
    Response(<<TextPart(<<"Here", " ", "you", " ", "go">>), ImagePart(<<>>, <<"BBBB">>), ImagePart(<<"image/", "png">>, <<"AAAA">>)>>),
    Response(<<ImagePart(<<"image/", "png">>, <<>>), TextPart(<<"Sorry,", " ", "cannot", " ", "comply">>), TextPart(<<"second">>)>>),
    Response(<<TextPart(LongText)>>) }

\* parts a response may be made of: texts, images with and without a
\* mimeType, inline data without bytes, a part with neither, a part with both
ClientParts == {
    TextPart(<<"Sorry,", " ", "cannot", " ", "comply">>),
    TextPart(LongText),
    ImagePart(<<"image/", "png">>, <<"AAAA">>),
    ImagePart(<<>>, <<"BBBB">>),
    ImagePart(<<"image/", "jpeg">>, <<>>),
    [inlineData |-> Null, text |-> <<>>],
    [inlineData |-> Some([mimeType |-> <<"image/", "webp">>, data |-> <<"CCCC">>]), text |-> <<"caption">>] }

PartsLists == UNION {[1..n -> ClientParts] : n \in 0..MaxParts}

ClientReplies == {Failure(<<>>), Failure(<<"Network error">>), NoParts} \cup {Response(parts) : parts \in PartsLists}

\* lines 309-370: the outcome of a call, given the reply to its request;
\* a call whose imageBase64 is null throws at line 316 before any request
generateEditedImage(call, reply) ==
    IF call.request = Null THEN Rejected(TYPE_ERROR)
    ELSE IF reply.failed THEN Rejected(reply.message)
    ELSE IF reply.parts = Null THEN Rejected(<<"No content generated">>)
    ELSE ParseParts(reply.parts[1])

\* lines 316-333: the request built from the arguments (null when
\* imageBase64 is null and replace throws)
RequestOf(imageBase64, imageMimeType, text) ==
    IF imageBase64 = Null THEN Null
    ELSE Some([text |-> text, mimeType |-> imageMimeType, data |-> CleanBase64(imageBase64[1])])

\* the call handleGenerate issues at line 73
CallOf(image, text) ==
    [imageBase64   |-> image.base64,
     imageMimeType |-> image.mimeType,
     prompt        |-> text,
     request       |-> RequestOf(image.base64, image.mimeType, text)]

\* lines 33-38: the ImageFile onloadend stores; reader.result is null when
\* the read failed
ImageFileOf(file, result) ==
    [file |-> file.name, base64 |-> result, mimeType |-> file.type]

IdleState == [isLoading |-> FALSE, error |-> Null, stage |-> "idle"]

Did(op) == [op |-> op, outcome |-> Null, reply |-> Null]

(* ------------------------------ state ---------------------------------- *)

\* lines 12-19
Init ==
    /\ prompt = DEFAULT_PROMPT
    /\ sourceImage = Null
    /\ resultImage = Null
    /\ state = IdleState
    /\ readers = EmptyBag
    /\ examples = EmptyBag
    /\ calls = EmptyBag
    /\ last = Did("init")

InFlight == BagCardinality(readers) + BagCardinality(examples) + BagCardinality(calls)

\* line 187: onChange={(e) => setPrompt(e.target.value)}
setPrompt(p) ==
    /\ p # prompt
    /\ prompt' = p
    /\ last' = Did("setPrompt")
    /\ UNCHANGED <<sourceImage, resultImage, state, readers, examples, calls>>

\* lines 23-28 and 30-31, 42: a file is chosen and a read of it started
handleFileSelect(file) ==
    /\ InFlight < MaxInFlight
    /\ readers' = readers (+) SetToBag({file})
    /\ last' = Did("handleFileSelect")
    /\ UNCHANGED <<prompt, sourceImage, resultImage, state, examples, calls>>

\* onloadend storing the file just read as the result as well
onloadend_previewAsResult(file, result) ==
    /\ BagIn(file, readers)
    /\ readers' = readers (-) SetToBag({file})
    /\ sourceImage' = Some(ImageFileOf(file, result))
    /\ resultImage' = IF result = Null THEN Null ELSE Some([url |-> result[1], mimeType |-> file.type])
    /\ state' = IdleState
    /\ last' = Did("onloadend")
    /\ UNCHANGED <<prompt, examples, calls>>

\* onloadend without setResultImage(null)
onloadend_keepsResult(file, result) ==
    /\ BagIn(file, readers)
    /\ readers' = readers (-) SetToBag({file})
    /\ sourceImage' = Some(ImageFileOf(file, result))
    /\ state' = IdleState
    /\ last' = Did("onloadend")
    /\ UNCHANGED <<prompt, resultImage, examples, calls>>

\* lines 32-41: the read of a file ends, with a data URL or with null
onloadend(file, result) ==
    /\ BagIn(file, readers)
    /\ readers' = readers (-) SetToBag({file})
    /\ sourceImage' = Some(ImageFileOf(file, result))
    /\ resultImage' = Null
    /\ state' = IdleState
    /\ last' = Did("onloadend")
    /\ UNCHANGED <<prompt, examples, calls>>

\* lines 45-48: up to the first await
loadExample ==
    /\ InFlight < MaxInFlight
    /\ state' = [state EXCEPT !.isLoading = TRUE, !.stage = "uploading"]
    /\ examples' = examples (+) SetToBag({"fetch"})
    /\ last' = Did("loadExample")
    /\ UNCHANGED <<prompt, sourceImage, resultImage, readers, calls>>

\* lines 48-49: fetch resolves and response.blob() is awaited
fetchResolved ==
    /\ BagIn("fetch", examples)
    /\ examples' = (examples (-) SetToBag({"fetch"})) (+) SetToBag({"blob"})
    /\ last' = Did("fetchResolved")
    /\ UNCHANGED <<prompt, sourceImage, resultImage, state, readers, calls>>

\* lines 49-51 and 55-57: the blob arrives, the read of the example file
\* starts and the finally block runs
blobResolved ==
    /\ BagIn("blob", examples)
    /\ examples' = examples (-) SetToBag({"blob"})
    /\ readers' = readers (+) SetToBag({ExampleFile})
    /\ state' = [state EXCEPT !.isLoading = FALSE]
    /\ last' = Did("blobResolved")
    /\ UNCHANGED <<prompt, sourceImage, resultImage, calls>>

\* the catch block without the finally block
exampleFailed_noFinally(phase) ==
    /\ BagIn(phase, examples)
    /\ examples' = examples (-) SetToBag({phase})
    /\ state' = [state EXCEPT !.error = Some(<<"Failed to load example image. Please upload one manually.">>)]
    /\ last' = Did("exampleFailed")
    /\ UNCHANGED <<prompt, sourceImage, resultImage, readers, calls>>

\* lines 52-57: either await rejects; the catch block, then the finally block
exampleFailed(phase) ==
    /\ BagIn(phase, examples)
    /\ examples' = examples (-) SetToBag({phase})
    /\ state' = [state EXCEPT !.error = Some(<<"Failed to load example image. Please upload one manually.">>),
                              !.isLoading = FALSE]
    /\ last' = Did("exampleFailed")
    /\ UNCHANGED <<prompt, sourceImage, resultImage, readers, calls>>

\* lines 62 and 66 written as a full reset to idle with the error
handleGenerate_resetsOnError ==
    /\ last' = Did("handleGenerate")
    /\ IF sourceImage = Null
       THEN /\ state' = [isLoading |-> FALSE, error |-> Some(<<"Please upload an image first.">>), stage |-> "idle"]
            /\ UNCHANGED calls
       ELSE IF Trim(prompt) = <<>>
       THEN /\ state' = [isLoading |-> FALSE, error |-> Some(<<"Please enter a prompt.">>), stage |-> "idle"]
            /\ UNCHANGED calls
       ELSE /\ InFlight < MaxInFlight
            /\ state' = [isLoading |-> TRUE, error |-> Null, stage |-> "processing"]
            /\ calls' = calls (+) SetToBag({CallOf(sourceImage[1], prompt)})
    /\ UNCHANGED <<prompt, sourceImage, resultImage, readers, examples>>

\* line 70 written as an update of the previous state, keeping its error
handleGenerate_keepsError ==
    /\ last' = Did("handleGenerate")
    /\ IF sourceImage = Null
       THEN /\ state' = [state EXCEPT !.error = Some(<<"Please upload an image first.">>)]
            /\ UNCHANGED calls
       ELSE IF Trim(prompt) = <<>>
       THEN /\ state' = [state EXCEPT !.error = Some(<<"Please enter a prompt.">>)]
            /\ UNCHANGED calls
       ELSE /\ InFlight < MaxInFlight
            /\ state' = [state EXCEPT !.isLoading = TRUE, !.stage = "processing"]
            /\ calls' = calls (+) SetToBag({CallOf(sourceImage[1], prompt)})
    /\ UNCHANGED <<prompt, sourceImage, resultImage, readers, examples>>

\* line 65 testing !prompt, without trim()
handleGenerate_noTrim ==
    /\ last' = Did("handleGenerate")
    /\ IF sourceImage = Null
       THEN /\ state' = [state EXCEPT !.error = Some(<<"Please upload an image first.">>)]
            /\ UNCHANGED calls
       ELSE IF prompt = <<>>
       THEN /\ state' = [state EXCEPT !.error = Some(<<"Please enter a prompt.">>)]
            /\ UNCHANGED calls
       ELSE /\ InFlight < MaxInFlight
            /\ state' = [isLoading |-> TRUE, error |-> Null, stage |-> "processing"]
            /\ calls' = calls (+) SetToBag({CallOf(sourceImage[1], prompt)})
    /\ UNCHANGED <<prompt, sourceImage, resultImage, readers, examples>>

\* lines 60-73: handleGenerate up to the await
handleGenerate ==
    /\ last' = Did("handleGenerate")
    /\ IF sourceImage = Null
       THEN /\ state' = [state EXCEPT !.error = Some(<<"Please upload an image first.">>)]
            /\ UNCHANGED calls
       ELSE IF Trim(prompt) = <<>>
       THEN /\ state' = [state EXCEPT !.error = Some(<<"Please enter a prompt.">>)]
            /\ UNCHANGED calls
       ELSE /\ InFlight < MaxInFlight
            /\ state' = [isLoading |-> TRUE, error |-> Null, stage |-> "processing"]
            /\ calls' = calls (+) SetToBag({CallOf(sourceImage[1], prompt)})
    /\ UNCHANGED <<prompt, sourceImage, resultImage, readers, examples>>

\* line 75 written as an update of the previous state, keeping its error
generationSettled_keepsError(call, reply) ==
    /\ BagIn(call, calls)
    /\ call.request = Null => reply = Failure(<<>>)
    /\ calls' = calls (-) SetToBag({call})
    /\ LET outcome == generateEditedImage(call, reply)
       IN  /\ last' = [op |-> "generationSettled", outcome |-> Some(outcome),
                       reply |-> IF call.request = Null THEN Null ELSE Some(reply)]
           /\ IF outcome.ok
              THEN /\ resultImage' = outcome.image
                   /\ state' = [state EXCEPT !.isLoading = FALSE, !.stage = "complete"]
              ELSE /\ state' = [isLoading |-> FALSE,
                                error |-> Some(OrElse(outcome.message, <<"Failed to process image. Please try again.">>)),
                                stage |-> "idle"]
                   /\ UNCHANGED resultImage
    /\ UNCHANGED <<prompt, sourceImage, readers, examples>>

\* a resolution that is dropped when the source image has been cleared
generationSettled_dropsStale(call, reply) ==
    /\ BagIn(call, calls)
    /\ call.request = Null => reply = Failure(<<>>)
    /\ calls' = calls (-) SetToBag({call})
    /\ LET outcome == generateEditedImage(call, reply)
       IN  /\ last' = [op |-> "generationSettled", outcome |-> Some(outcome),
                       reply |-> IF call.request = Null THEN Null ELSE Some(reply)]
           /\ IF outcome.ok
              THEN IF sourceImage = Null
                   THEN UNCHANGED <<resultImage, state>>
                   ELSE /\ resultImage' = outcome.image
                        /\ state' = [isLoading |-> FALSE, error |-> Null, stage |-> "complete"]
              ELSE /\ state' = [isLoading |-> FALSE,
                                error |-> Some(OrElse(outcome.message, <<"Failed to process image. Please try again.">>)),
                                stage |-> "idle"]
                   /\ UNCHANGED resultImage
    /\ UNCHANGED <<prompt, sourceImage, readers, examples>>

\* a catch block that also discards the result held
generationSettled_rejectClearsResult(call, reply) ==
    /\ BagIn(call, calls)
    /\ call.request = Null => reply = Failure(<<>>)
    /\ calls' = calls (-) SetToBag({call})
    /\ LET outcome == generateEditedImage(call, reply)
       IN  /\ last' = [op |-> "generationSettled", outcome |-> Some(outcome),
                       reply |-> IF call.request = Null THEN Null ELSE Some(reply)]
           /\ IF outcome.ok
              THEN /\ resultImage' = outcome.image
                   /\ state' = [isLoading |-> FALSE, error |-> Null, stage |-> "complete"]
              ELSE /\ state' = [isLoading |-> FALSE,
                                error |-> Some(OrElse(outcome.message, <<"Failed to process image. Please try again.">>)),
                                stage |-> "idle"]
                   /\ resultImage' = Null
    /\ UNCHANGED <<prompt, sourceImage, readers, examples>>

\* lines 73-82: the awaited call settles
generationSettled(call, reply) ==
    /\ BagIn(call, calls)
    /\ call.request = Null => reply = Failure(<<>>)
    /\ calls' = calls (-) SetToBag({call})
    /\ LET outcome == generateEditedImage(call, reply)
       IN  /\ last' = [op |-> "generationSettled", outcome |-> Some(outcome),
                       reply |-> IF call.request = Null THEN Null ELSE Some(reply)]
           /\ IF outcome.ok
              THEN /\ resultImage' = outcome.image
                   /\ state' = [isLoading |-> FALSE, error |-> Null, stage |-> "complete"]
              ELSE /\ state' = [isLoading |-> FALSE,
                                error |-> Some(OrElse(outcome.message, <<"Failed to process image. Please try again.">>)),
                                stage |-> "idle"]
                   /\ UNCHANGED resultImage
    /\ UNCHANGED <<prompt, sourceImage, readers, examples>>

\* clearAll without setPrompt(DEFAULT_PROMPT)
clearAll_keepsPrompt ==
    /\ sourceImage' = Null
    /\ resultImage' = Null
    /\ state' = IdleState
    /\ last' = Did("clearAll")
    /\ UNCHANGED <<prompt, readers, examples, calls>>

\* lines 85-91
clearAll ==
    /\ sourceImage' = Null
    /\ resultImage' = Null
    /\ prompt' = DEFAULT_PROMPT
    /\ state' = IdleState
    /\ last' = Did("clearAll")
    /\ UNCHANGED <<readers, examples, calls>>

\* line 273: "Generate Another Version", rendered while a result is held
generateAnother ==
    /\ resultImage # Null
    /\ resultImage' = Null
    /\ last' = Did("generateAnother")
    /\ UNCHANGED <<prompt, sourceImage, state, readers, examples, calls>>

Next ==
    \/ \E p \in PromptInputs : setPrompt(p)
    \/ \E file \in UserFiles : handleFileSelect(file)
    \/ \E file \in Files : \E result \in {Null, Some(DataURL(file))} : onloadend(file, result)
    \/ loadExample
    \/ fetchResolved
    \/ blobResolved
    \/ \E phase \in {"fetch", "blob"} : exampleFailed(phase)
    \/ handleGenerate
    \/ \E call \in BagToSet(calls), reply \in Replies : generationSettled(call, reply)
    \/ clearAll
    \/ generateAnother

Spec == Init /\ [][Next]_vars

(* ------------------------- pending callbacks ---------------------------- *)

\* the continuations the event loop runs once a read, a fetch or a call
\* has settled (lines 32-41, 48-57, 73-82)
Callback ==
    \/ \E file \in Files : \E result \in {Null, Some(DataURL(file))} : onloadend(file, result)
    \/ fetchResolved
    \/ blobResolved
    \/ \E phase \in {"fetch", "blob"} : exampleFailed(phase)
    \/ \E call \in BagToSet(calls), reply \in Replies : generationSettled(call, reply)

\* inputs of the runs checked for progress: the default and a blank prompt;
\* a rejection and an image as replies
LivePrompts == {DEFAULT_PROMPT, <<" ", "\n">>}

LiveReplies == {
    Failure(<<>>),
    Response(<<ImagePart(<<"image/", "png">>, <<"AAAA">>)>>) }

\* the handlers and continuations of Next over those inputs
NextLive ==
    \/ \E p \in LivePrompts : setPrompt(p)
    \/ \E file \in UserFiles : handleFileSelect(file)
    \/ \E file \in Files : \E result \in {Null, Some(DataURL(file))} : onloadend(file, result)
    \/ loadExample
    \/ fetchResolved
    \/ blobResolved
    \/ \E phase \in {"fetch", "blob"} : exampleFailed(phase)
    \/ handleGenerate
    \/ \E call \in BagToSet(calls), reply \in LiveReplies : generationSettled(call, reply)
    \/ clearAll
    \/ generateAnother

\* every started read, fetch and call settles and its continuation runs
SpecLive == Init /\ [][NextLive]_vars /\ WF_vars(Callback)

(* ------------------- handlers behind the rendered view ------------------ *)

\* line 117: the intro section, with Upload Photo and Try Example
IntroShown == sourceImage = Null

\* line 148: the editor, with the clear button, the textarea, the Generate
\* button and the result column; hidden without a source image
EditorShown == sourceImage # Null

\* lines 196-204: the Generate button, disabled without a source image and
\* while state.isLoading is passed to it
GenerateEnabled == EditorShown /\ state.isLoading = FALSE

\* the handlers as the rendered controls let them be triggered; callbacks
\* of pending reads, fetches and calls run whatever is rendered
NextUI ==
    \/ EditorShown /\ \E p \in PromptInputs : setPrompt(p)
    \/ IntroShown /\ \E file \in UserFiles : handleFileSelect(file)
    \/ \E file \in Files : \E result \in {Null, Some(DataURL(file))} : onloadend(file, result)
    \/ IntroShown /\ loadExample
    \/ fetchResolved
    \/ blobResolved
    \/ \E phase \in {"fetch", "blob"} : exampleFailed(phase)
    \/ GenerateEnabled /\ handleGenerate
    \/ \E call \in BagToSet(calls), reply \in Replies : generationSettled(call, reply)
    \/ EditorShown /\ clearAll
    \/ EditorShown /\ generateAnother

SpecUI == Init /\ [][NextUI]_vars

(* ---------------- the generation client on its own --------------------- *)

\* lines 309-370: one call of generateEditedImage, made in the initial
\* state, with any arguments and any reply of the remote model
clientCall(file, result, text, reply) ==
    LET call == CallOf(ImageFileOf(file, result), text)
    IN  /\ last.op = "init"
        /\ calls' = SetToBag({call})
        /\ last' = [op |-> "generateEditedImage",
                    outcome |-> Some(generateEditedImage(call, reply)),
                    reply |-> IF call.request = Null THEN Null ELSE Some(reply)]
        /\ UNCHANGED <<prompt, sourceImage, resultImage, state, readers, examples>>

NextClient ==
    \E file \in Files : \E result \in {Null, Some(DataURL(file))} :
        \E reply \in ClientReplies : clientCall(file, result, DEFAULT_PROMPT, reply)

SpecClient == Init /\ [][NextClient]_vars

(* ------------------------------ claims --------------------------------- *)

\* C1: whenever an in-flight generation call resolves with an image, the
\* state right after is stage=complete, isLoading=false, error=null and
\* resultImage is the returned image, whatever was interleaved meanwhile.
C1_ResolveCompletes ==
    (last.op = "generationSettled" /\ last.outcome[1].ok) =>
        /\ state = [isLoading |-> FALSE, error |-> Null, stage |-> "complete"]
        /\ resultImage = last.outcome[1].image
        /\ resultImage # Null

\* a call resolved after clearAll had reset the state
C1_Witness ==
    /\ last.op = "generationSettled"
    /\ last.outcome[1].ok
    /\ sourceImage = Null
    /\ resultImage # Null

\* C2: whenever an in-flight generation call rejects, the state right after
\* is stage=idle, isLoading=false, error = the rejection message (or the
\* default when it is empty), and resultImage is what it was before.
C2_RejectGoesIdle ==
    [][(last'.op = "generationSettled" /\ ~last'.outcome[1].ok) =>
        /\ state' = [isLoading |-> FALSE,
                     error |-> Some(IF last'.outcome[1].message = <<>>
                                    THEN <<"Failed to process image. Please try again.">>
                                    ELSE last'.outcome[1].message),
                     stage |-> "idle"]
        /\ resultImage' = resultImage]_vars

\* a call rejected while an earlier result is held
C2_Witness ==
    /\ last.op = "generationSettled"
    /\ ~last.outcome[1].ok
    /\ resultImage # Null
    /\ state.error # Null

\* C3: from every reachable state, clearAll yields sourceImage=null,
\* resultImage=null, error=null, prompt=DEFAULT_PROMPT, isLoading=false and
\* stage=idle.
C3_ClearResets ==
    last.op = "clearAll" =>
        /\ sourceImage = Null
        /\ resultImage = Null
        /\ state.error = Null
        /\ state.isLoading = FALSE
        /\ state.stage = "idle"
        /\ prompt = <<"Using the reference image, create a hyper-realistic modern oil painting", " ", "Portrait size: 4:5 ratio.">>

\* clearAll with a generation call and an example fetch in flight
C3_Witness ==
    /\ last.op = "clearAll"
    /\ calls # EmptyBag
    /\ examples # EmptyBag

\* C4 as stated: in every reachable state, error and a generated result are
\* mutually exclusive.
C4_ErrorExcludesResult == ~(state.error # Null /\ resultImage # Null)

\* C4 amended: error and a result come to be held together only by a failed
\* action (generate with an unmet precondition, a rejected generation, a
\* failed example fetch) that sets error and leaves the result held as it
\* was; a step that stores a result never leaves an error set.
C4_ErrorJoinsResultOnlyByFailure ==
    [][(state'.error # Null /\ resultImage' # Null /\ ~(state.error # Null /\ resultImage # Null)) =>
        /\ resultImage' = resultImage
        /\ last'.op \in {"handleGenerate", "generationSettled", "exampleFailed"}]_vars

\* generate invoked with a blank prompt while a result is held
C4_Witness ==
    /\ last.op = "handleGenerate"
    /\ state.error = Some(<<"Please enter a prompt.">>)
    /\ resultImage # Null

\* C5: in every reachable state, isLoading=true implies that an example
\* fetch or a generation call is in flight.
C5_LoadingHasCallInFlight ==
    state.isLoading => (examples # EmptyBag \/ calls # EmptyBag)

\* isLoading still true after generate failed its precondition while an
\* example fetch is in flight
C5_Witness ==
    /\ state.isLoading
    /\ last.op = "handleGenerate"
    /\ state.error # Null
    /\ calls = EmptyBag

\* C6: when generate is invoked with a source image and a prompt that is
\* non-empty after trimming, the state becomes stage=processing,
\* isLoading=true, error=null, and exactly one call is issued, carrying the
\* source image's base64 data, its mimeType and the current prompt.
C6_GenerateIssuesOneCall ==
    [][(/\ last'.op = "handleGenerate"
        /\ sourceImage # Null
        /\ \E i \in 1..Len(prompt) : prompt[i] \notin {" ", "\n", "\t"}) =>
        /\ state' = [isLoading |-> TRUE, error |-> Null, stage |-> "processing"]
        /\ BagCardinality(calls') = BagCardinality(calls) + 1
        /\ \E c \in BagToSet(calls') :
              /\ c.imageBase64 = sourceImage[1].base64
              /\ c.imageMimeType = sourceImage[1].mimeType
              /\ c.prompt = prompt
              /\ calls' = calls (+) SetToBag({c})]_vars

\* a second call issued with an edited prompt while a first is in flight
C6_Witness ==
    /\ last.op = "handleGenerate"
    /\ state = [isLoading |-> TRUE, error |-> Null, stage |-> "processing"]
    /\ BagCardinality(calls) = 2
    /\ prompt = <<" ", "sketch", " ">>

\* C7 as stated: when generate is invoked with no source image or a blank
\* prompt, no call is made, error is the matching message, and the stage is
\* idle afterwards.
C7_UnmetPreconditionGoesIdle ==
    [][(/\ last'.op = "handleGenerate"
        /\ (sourceImage = Null \/ \A i \in 1..Len(prompt) : prompt[i] \in {" ", "\n", "\t"})) =>
        /\ calls' = calls
        /\ state'.error = Some(IF sourceImage = Null
                               THEN <<"Please upload an image first.">>
                               ELSE <<"Please enter a prompt.">>)
        /\ state'.stage = "idle"]_vars

\* C7 amended: ... no call is made, error is the matching message, and stage
\* and isLoading are left as they were (an idle stage remains idle).
C7_UnmetPreconditionKeepsStage ==
    [][(/\ last'.op = "handleGenerate"
        /\ (sourceImage = Null \/ \A i \in 1..Len(prompt) : prompt[i] \in {" ", "\n", "\t"})) =>
        /\ calls' = calls
        /\ state'.error = Some(IF sourceImage = Null
                               THEN <<"Please upload an image first.">>
                               ELSE <<"Please enter a prompt.">>)
        /\ state'.stage = state.stage
        /\ state'.isLoading = state.isLoading]_vars

\* generate invoked with a whitespace-only prompt after a completed generation
C7_Witness ==
    /\ last.op = "handleGenerate"
    /\ sourceImage # Null
    /\ prompt = <<" ", "\n">>
    /\ state.error = Some(<<"Please enter a prompt.">>)
    /\ state.stage = "complete"

\* C8: when a file finishes loading, in one step sourceImage becomes the new
\* image, resultImage and error become null, isLoading=false and stage=idle,
\* from every prior state.
C8_FileLoadResets ==
    [][last'.op = "onloadend" =>
        /\ \E file \in BagToSet(readers) :
              /\ readers' = readers (-) SetToBag({file})
              /\ sourceImage' # Null
              /\ sourceImage'[1].file = file.name
              /\ sourceImage'[1].mimeType = file.type
              /\ sourceImage'[1].base64 \in {Null, Some(<<"data:">> \o file.type \o <<";base64,">> \o file.bytes)}
        /\ resultImage' = Null
        /\ state' = [isLoading |-> FALSE, error |-> Null, stage |-> "idle"]]_vars

\* a file load completed while a generation call is in flight
C8_Witness ==
    /\ last.op = "onloadend"
    /\ sourceImage # Null
    /\ sourceImage[1].base64 # Null
    /\ calls # EmptyBag

\* C9 as stated: once the example fetch has settled, by failure or by the
\* example file's load completing, the state is stage=idle with
\* isLoading=false.
C9_ExampleSettlesToIdle ==
    (\/ last.op = "exampleFailed"
     \/ (last.op = "onloadend" /\ sourceImage[1].file = "example_portrait.jpg")) =>
        (state.stage = "idle" /\ state.isLoading = FALSE)

\* C10 as stated: the data transmitted for an image payload given as
\* "data:<mime>;base64,<payload>" is exactly <payload>; a payload without a
\* prefix is transmitted unchanged.
C10_RequestCarriesPayloadOnly ==
    \A c \in BagToSet(calls) :
        c.request # Null =>
            LET s == c.imageBase64[1]
                marks == {i \in 1..Len(s) : s[i] = ";base64,"}
            IN  c.request[1].data =
                    IF s # <<>> /\ s[1] = "data:" /\ marks # {}
                    THEN SubSeq(s, (CHOOSE i \in marks : \A j \in marks : i <= j) + 1, Len(s))
                    ELSE s

\* C11: for every response whose parts list has at least one part with
\* inline image data, generateEditedImage returns the result built from the
\* first such part: url = "data:" + mimeType + ";base64," + data, with the
\* part's mimeType or "image/png" when it has none; parts before and after
\* it have no effect.
C11_FirstImagePartIsResult ==
    (/\ last.reply # Null
     /\ last.reply[1].failed = FALSE
     /\ last.reply[1].parts # Null
     /\ \E i \in 1..Len(last.reply[1].parts[1]) :
            /\ last.reply[1].parts[1][i].inlineData # Null
            /\ last.reply[1].parts[1][i].inlineData[1].data # <<>>) =>
        LET parts == last.reply[1].parts[1]
            images == {i \in 1..Len(parts) :
                          parts[i].inlineData # Null /\ parts[i].inlineData[1].data # <<>>}
            first == parts[CHOOSE i \in images : \A j \in images : i <= j].inlineData[1]
            mime == IF first.mimeType = <<>> THEN <<"image/", "png">> ELSE first.mimeType
        IN  /\ last.outcome # Null
            /\ last.outcome[1].ok
            /\ last.outcome[1].image =
                   Some([url |-> <<"data:">> \o mime \o <<";base64,">> \o first.data,
                         mimeType |-> mime])

\* a response with a text part, then an image part without mimeType, then
\* another image part
C11_Witness ==
    /\ last.op = "generateEditedImage"
    /\ last.reply # Null
    /\ last.reply[1].parts # Null
    /\ Len(last.reply[1].parts[1]) = 3
    /\ last.reply[1].parts[1][1] = TextPart(<<"Sorry,", " ", "cannot", " ", "comply">>)
    /\ last.reply[1].parts[1][2] = ImagePart(<<>>, <<"BBBB">>)
    /\ last.reply[1].parts[1][3] = ImagePart(<<"image/", "png">>, <<"AAAA">>)
    /\ last.outcome[1].ok
    /\ last.outcome[1].image[1].url = <<"data:", "image/", "png", ";base64,", "BBBB">>

\* C12: for every response whose parts list has no part with inline image
\* data, generateEditedImage fails: if some part has non-empty text, the
\* message carries the first 100 characters of the first such text and none
\* of its later characters; otherwise the message is "No image data found
\* in response".
C12_NoImageRejects ==
    (/\ last.reply # Null
     /\ last.reply[1].failed = FALSE
     /\ last.reply[1].parts # Null
     /\ \A i \in 1..Len(last.reply[1].parts[1]) :
            \/ last.reply[1].parts[1][i].inlineData = Null
            \/ last.reply[1].parts[1][i].inlineData[1].data = <<>>) =>
        LET parts == last.reply[1].parts[1]
            texts == {i \in 1..Len(parts) : parts[i].text # <<>>}
            message == last.outcome[1].message
        IN  /\ last.outcome # Null
            /\ last.outcome[1].ok = FALSE
            /\ last.outcome[1].image = Null
            /\ IF texts = {}
               THEN message = <<"No image data found in response">>
               ELSE LET text == parts[CHOOSE i \in texts : \A j \in texts : i <= j].text
                        n == IF Len(text) < 100 THEN Len(text) ELSE 100
                    IN  /\ Len(message) = n + 2
                        /\ SubSeq(message, 2, n + 1) = SubSeq(text, 1, n)

\* a response without image whose first text is longer than 100 characters
C12_Witness ==
    /\ last.op = "generateEditedImage"
    /\ last.reply # Null
    /\ last.reply[1].parts # Null
    /\ Len(last.reply[1].parts[1]) >= 2
    /\ last.reply[1].parts[1][1] = ImagePart(<<"image/", "jpeg">>, <<>>)
    /\ Len(last.reply[1].parts[1][2].text) > 100
    /\ last.outcome[1].ok = FALSE
    /\ Len(last.outcome[1].message) = 102

\* C13: a generation call that resolves after clearAll (sourceImage is null
\* while the call is still in flight) still updates the state: resultImage
\* is set to the returned image and stage becomes complete, with sourceImage
\* still null.
C13_ResolutionAfterClearApplies ==
    [][(/\ last'.op = "generationSettled"
        /\ last'.outcome[1].ok
        /\ sourceImage = Null) =>
        /\ resultImage' = last'.outcome[1].image
        /\ resultImage' # Null
        /\ state'.stage = "complete"
        /\ sourceImage' = Null]_vars

\* the reset state with a result: no source image, the default prompt, a
\* result held and stage complete
C13_Witness ==
    /\ sourceImage = Null
    /\ resultImage # Null
    /\ state.stage = "complete"
    /\ prompt = DEFAULT_PROMPT
    /\ last.op = "generationSettled"

\* C15 as stated: in every reachable state isLoading is true if and only if
\* stage is uploading or processing.
C15_LoadingIffStage ==
    state.isLoading <=> state.stage \in {"uploading", "processing"}

\* C16 as stated: every error-producing transition (generate with a missing
\* image or blank prompt, a rejected generation, a failed example fetch)
\* leaves sourceImage and resultImage unchanged and ends with isLoading false.
C16_ErrorsEndNotLoading ==
    [][(\/ (/\ last'.op = "handleGenerate"
            /\ (sourceImage = Null \/ \A i \in 1..Len(prompt) : prompt[i] \in {" ", "\n", "\t"}))
        \/ (last'.op = "generationSettled" /\ ~last'.outcome[1].ok)
        \/ last'.op = "exampleFailed") =>
        /\ sourceImage' = sourceImage
        /\ resultImage' = resultImage
        /\ state'.isLoading = FALSE]_vars

\* C16 amended: every error-producing transition leaves sourceImage and
\* resultImage unchanged; a rejected generation and a failed example fetch
\* end with isLoading false, and generate with an unmet precondition leaves
\* isLoading as it was.
C16_ErrorsKeepImages ==
    [][/\ (\/ (/\ last'.op = "handleGenerate"
               /\ (sourceImage = Null \/ \A i \in 1..Len(prompt) : prompt[i] \in {" ", "\n", "\t"}))
           \/ (last'.op = "generationSettled" /\ ~last'.outcome[1].ok)
           \/ last'.op = "exampleFailed") =>
            (sourceImage' = sourceImage /\ resultImage' = resultImage /\ state'.error # Null)
       /\ (\/ (last'.op = "generationSettled" /\ ~last'.outcome[1].ok)
           \/ last'.op = "exampleFailed") =>
            state'.isLoading = FALSE
       /\ (/\ last'.op = "handleGenerate"
           /\ (sourceImage = Null \/ \A i \in 1..Len(prompt) : prompt[i] \in {" ", "\n", "\t"})) =>
            state'.isLoading = state.isLoading]_vars

\* generate invoked with a blank prompt while a call is in flight and a
\* result is held
C16_Witness ==
    /\ last.op = "handleGenerate"
    /\ state.error = Some(<<"Please enter a prompt.">>)
    /\ state.isLoading
    /\ sourceImage # Null
    /\ resultImage # Null

\* C17: resultImage takes a new non-null value only in the step where a
\* generation call resolves, and then the returned image; every other step
\* leaves it unchanged or sets it to null; at most one result is held.
C17_ResultOnlyFromResolution ==
    [][/\ Len(resultImage') <= 1
       /\ (resultImage' # Null /\ resultImage' # resultImage) =>
            /\ last'.op = "generationSettled"
            /\ last'.outcome[1].ok
            /\ resultImage' = last'.outcome[1].image]_vars

\* a held result replaced by the result of a later call
C17_Witness ==
    /\ last.op = "generationSettled"
    /\ last.outcome[1].ok
    /\ resultImage = last.outcome[1].image
    /\ resultImage[1].url = <<"data:", "image/", "png", ";base64,", "BBBB">>
    /\ calls # EmptyBag

\* C18 as stated: each generate action that passes the precondition checks
\* issues exactly one request to the remote model, and no other step issues
\* one (no retry after a rejection).
C18_OneRequestPerGenerate ==
    [][LET sent(b) == BagCardinality([c \in {x \in BagToSet(b) : x.request # Null} |-> b[c]])
       IN  IF /\ last'.op = "handleGenerate"
              /\ sourceImage # Null
              /\ \E i \in 1..Len(prompt) : prompt[i] \notin {" ", "\n", "\t"}
           THEN sent(calls') = sent(calls) + 1
           ELSE sent(calls') <= sent(calls)]_vars

\* C19 as stated: a result held together with a source image was generated
\* from that source image: a result is stored only from a call made with the
\* source image then selected, and a change of source image clears the
\* result.
C19_ResultFromCurrentSource ==
    [][/\ (last'.op = "generationSettled" /\ last'.outcome[1].ok /\ sourceImage' # Null) =>
            \E c \in BagToSet(calls) :
                /\ calls = calls' (+) SetToBag({c})
                /\ c.imageBase64 = sourceImage'[1].base64
                /\ c.imageMimeType = sourceImage'[1].mimeType
       /\ (sourceImage' # sourceImage) => resultImage' = Null]_vars

\* C19 amended: a result is stored from whichever call resolves, whatever
\* source image is selected by then; what holds is that every step changing
\* the source image (a completed file load, clearAll) sets resultImage to
\* null, and a result comes only from a call that was in flight and had sent
\* its request.
C19_SourceChangeClearsResult ==
    [][/\ (last'.op = "generationSettled" /\ last'.outcome[1].ok) =>
            \E c \in BagToSet(calls) :
                /\ calls = calls' (+) SetToBag({c})
                /\ c.request # Null
                /\ c.imageBase64 # Null
       /\ (sourceImage' # sourceImage) => resultImage' = Null]_vars

\* a result held beside a source image whose read failed, which no call
\* made with it can have produced
C19_Witness ==
    /\ sourceImage # Null
    /\ sourceImage[1].base64 = Null
    /\ resultImage # Null
    /\ last.op = "generationSettled"

\* C14 as stated: with generate triggered only while the Generate button is
\* enabled (a source image is selected and isLoading is false), at most one
\* generation call is in flight in every reachable state.
C14_AtMostOneCallInFlight == BagCardinality(calls) <= 1

\* C20: if every started example fetch, file read and generation call
\* settles and the user stops triggering actions, then eventually isLoading
\* is false and stays false: either user actions go on forever, or from some
\* point on isLoading is always false.
C20_LoadingEventuallyClears ==
    \/ []<><<last'.op \in {"setPrompt", "handleFileSelect", "loadExample",
                           "handleGenerate", "clearAll", "generateAnother"}>>_vars
    \/ <>[](state.isLoading = FALSE)

\* everything has drained after a failed example fetch and the indicator
\* is off
C20_Witness ==
    /\ last.op = "exampleFailed"
    /\ readers = EmptyBag
    /\ examples = EmptyBag
    /\ calls = EmptyBag
    /\ state.isLoading = FALSE
    /\ state.stage = "uploading"

====
